---- MODULE Spec2Model ----
(***************************************************************************)
(* Model of Map2D (src/MapLib.py): the connection matrix and its loader,   *)
(* the connection queries and edits, the wavefront cost computation        *)
(* (fillCostMatrix) and the path walk (findPath).                          *)
(*                                                                         *)
(* A numpy 2-D array is a record [w, h, v]: shape (w, h) and the function  *)
(* v from <<x, y>> to the stored number.  Python's None for a matrix is    *)
(* NoMatrix (shape (0, 0)), None for currentPath is the empty sequence     *)
(* (the code never stores an empty array there).                           *)
(***************************************************************************)
EXTENDS Integers, Sequences, FiniteSets, TLC

VARIABLES
    mapFile,          \* the map description file handed to the constructor
    pc,               \* "new" | "idle" | "fill" | "findPath"
    loadingOk,        \* what _loadMap returned
    sizeX, sizeY, sizeCell,
    connectionMatrix,
    costMatrix,
    currentPath,      \* flat sequence x1, y1, x2, y2, ...
    grid,             \* fillCostMatrix's local cost grid
    wavefront,        \* fillCostMatrix's local wavefront list
    wfIdx,            \* position of the for loop of line 398 in wavefront
    numberUpdates,    \* fillCostMatrix's local counter of the current round
    frame,            \* arguments of the pending findPath call
    depth,            \* number of findPath calls on the stack
    fpResult,         \* what the last findPath call returned or raised
    connResult,       \* what the last isConnected call returned or raised
    hist              \* history: what was asked, for stating the properties

vars == <<mapFile, pc, loadingOk, sizeX, sizeY, sizeCell, connectionMatrix,
          costMatrix, currentPath, grid, wavefront, wfIdx, numberUpdates,
          frame, depth, fpResult, connResult, hist>>

-----------------------------------------------------------------------------
(* Bounds of the model *)

\* largest N of the N x N all-open maps
MaxN == 3
\* most data lines of a generated map file
MaxLines == 4
\* most map edits and queries (planPath, isConnected), taken together, in one behaviour
MaxCalls == 2
\* depth at which the interpreter stops a recursion (RecursionError)
RecursionLimit == 20

-----------------------------------------------------------------------------
(* Values of the cost grid *)

Blocked == -1
Unvisited == -2
LowPathInit == 10000000

-----------------------------------------------------------------------------
(* numpy arrays *)

NoMatrix == [w |-> 0, h |-> 0, v |-> [p \in {} |-> 0]]

IsNone(m) == m.w = 0

Positions(w, h) == (0 .. w - 1) \X (0 .. h - 1)

\* np.ones((w, h)) * value
Filled(w, h, value) == [w |-> w, h |-> h, v |-> [p \in Positions(w, h) |-> value]]

\* an index numpy accepts on an axis of length n: -n .. n-1
ValidIndex(i, n) == -n <= i /\ i < n

\* the element a valid index names: negative indices count from the end
WrapIndex(i, n) == IF i < 0 THEN i + n ELSE i

ValidAt(m, x, y) == ValidIndex(x, m.w) /\ ValidIndex(y, m.h)

\* m[x, y] for a valid index pair
At(m, x, y) == m.v[<<WrapIndex(x, m.w), WrapIndex(y, m.h)>>]

\* m[x, y] = value
Put(m, x, y, value) ==
    [m EXCEPT !.v[<<WrapIndex(x, m.w), WrapIndex(y, m.h)>>] = value]

\* m[:, row] = line, for a line of m.w numbers
PutColumn(m, row, line) ==
    [m EXCEPT !.v = [p \in Positions(m.w, m.h) |->
                        IF p[2] = row THEN line[p[1] + 1] ELSE m.v[p]]]

-----------------------------------------------------------------------------
(* _loadMap: a file is a sequence of lines, a line the sequence of its     *)
(* integer tokens (line.split() and int()); a blank line is <<>>.          *)

RECURSIVE LoadRows(_, _, _)
\* the for loop of lines 102-116 from line number indx on
LoadRows(cm, lines, indx) ==
    IF lines = <<>> THEN [ok |-> TRUE, cm |-> cm]
    ELSE LET parsed_line == Head(lines)
             current_row == (cm.h - 1) - indx
         IN IF Len(parsed_line) = cm.w /\ indx < cm.h
            THEN LoadRows(PutColumn(cm, current_row, parsed_line), Tail(lines), indx + 1)
            ELSE IF Len(parsed_line) # 0
                 THEN [ok |-> FALSE, cm |-> cm]
                 ELSE LoadRows(cm, Tail(lines), indx + 1)

\* the object's fields after _loadMap(file), and its return value
LoadMap(file) ==
    LET unset == [ok |-> FALSE, sizeX |-> 0, sizeY |-> 0, sizeCell |-> 0, cm |-> NoMatrix]
    IN IF file = <<>> THEN unset                      \* mapF.next() raises StopIteration
       ELSE LET parsed_header == Head(file)
            IN IF Len(parsed_header) # 3 THEN unset
               ELSE LET sx == parsed_header[1]
                        sy == parsed_header[2]
                        sized == [unset EXCEPT !.sizeX = sx, !.sizeY = sy,
                                               !.sizeCell = parsed_header[3]]
                    IN IF 2 * sx + 1 < 0 \/ 2 * sy + 1 < 0
                       THEN sized                     \* np.ones raises ValueError
                       ELSE LET rows == LoadRows(Filled(2 * sx + 1, 2 * sy + 1, 0),
                                                 Tail(file), 0)
                            IN [sized EXCEPT !.ok = rows.ok, !.cm = rows.cm]

-----------------------------------------------------------------------------
(* Map files *)

SeqsUpTo(S, n) == UNION {[1 .. k -> S] : k \in 0 .. n}

\* the line of a w-wide all-open map at height row (boundary ring closed)
OpenLine(w, h, row) ==
    [i \in 1 .. w |-> IF i = 1 \/ i = w \/ row = 0 \/ row = h - 1 THEN 0 ELSE 1]

\* the file of the sx x sy map with every interior position open
OpenFile(sx, sy) ==
    <<<<sx, sy, 400>>>> \o [k \in 1 .. 2 * sy + 1 |-> OpenLine(2 * sx + 1, 2 * sy + 1, 2 * sy + 1 - k)]

\* files of 1 x 1 maps, well formed or not
LoadHeaders == {<<1, 1, 400>>, <<1, 1>>}
LoadLines == {<<>>, <<0, 0, 0>>, <<0, 1, 0>>, <<1, 0, 1>>, <<0, 0>>}
LoadFiles == {<<>>} \cup {<<hd>> \o ls : hd \in LoadHeaders, ls \in SeqsUpTo(LoadLines, MaxLines)}

-----------------------------------------------------------------------------
(* Construction *)

NoFrame == [x |-> 0, y |-> 0, xe |-> 0, ye |-> 0]
NoConn == [raised |-> FALSE, value |-> 0]
NoCell == <<-1, -1>>
NoHist == [edits |-> 0,          \* edit operations so far
           queries |-> 0,        \* planPath and isConnected calls so far
           isolated |-> NoCell,  \* the cell whose 8 connections were closed last
           gridGoal |-> NoCell,  \* the goal cell grid was built for
           gridFresh |-> FALSE,  \* grid is complete and built from connectionMatrix as it is now
           rounds |-> 0,         \* rounds of the while loop of fillCostMatrix so far
           costGoal |-> NoCell,  \* the goal cell costMatrix was built for
           costFresh |-> FALSE,  \* costMatrix was built from connectionMatrix as it is now
           start |-> NoCell,     \* the start cell of the last path query
           end |-> NoCell,       \* the end cell of the last path query
           pathBase |-> 0,       \* length of currentPath when the last path query began
           calls |-> 0,          \* findPath calls the last path query has made
           live |-> FALSE,       \* map and costMatrix are as the last path query found them
           asked |-> FALSE,      \* isConnected has been called
           conn |-> <<0, 0, 0>>, \* cellX, cellY, numNeigh of the last isConnected
           tripped |-> FALSE,    \* the last edit was setConnection then deleteConnection
           trip |-> <<0, 0, 0>>, \* cellX, cellY, numNeigh of that pair of calls
           was |-> 0]            \* what isConnected returned before that pair of calls

\* the fields as lines 35-51 of __init__ set them, before the file is read
Fresh(files) ==
    /\ mapFile \in files
    /\ pc = "new"
    /\ loadingOk = FALSE
    /\ sizeX = 0 /\ sizeY = 0 /\ sizeCell = 0
    /\ connectionMatrix = NoMatrix
    /\ costMatrix = NoMatrix
    /\ currentPath = <<>>
    /\ grid = NoMatrix
    /\ wavefront = <<>>
    /\ wfIdx = 0
    /\ numberUpdates = 0
    /\ frame = NoFrame
    /\ depth = 0
    /\ fpResult = "none"
    /\ connResult = NoConn
    /\ hist = NoHist

\* lines 53-56 of __init__: read the file
Construct ==
    /\ pc = "new"
    /\ LET r == LoadMap(mapFile)
       IN /\ loadingOk' = r.ok
          /\ sizeX' = r.sizeX
          /\ sizeY' = r.sizeY
          /\ sizeCell' = r.sizeCell
          /\ connectionMatrix' = r.cm
    /\ pc' = "idle"
    /\ UNCHANGED <<mapFile, costMatrix, currentPath, grid, wavefront, wfIdx,
                   numberUpdates, frame, depth, fpResult, connResult, hist>>

InitLoad == Fresh(LoadFiles)
SpecLoad == InitLoad /\ [][Construct]_vars

-----------------------------------------------------------------------------
(* Cells and connections *)

Cells == (0 .. sizeX - 1) \X (0 .. sizeY - 1)

\* the cells a caller may name, in range or one step outside
AnyCells == (-1 .. sizeX) \X (-1 .. sizeY)

Directions == 0 .. 7

\* the centre position of a cell in the doubled grid (lines 382-383, 420-424)
Centre(cell) == <<2 * cell[1] + 1, 2 * cell[2] + 1>>

\* the table of lines 141-150: direction -> offset in the connection matrix
ConnOffset ==
    <<<<0, 1>>, <<1, 1>>, <<1, 0>>, <<1, -1>>, <<0, -1>>, <<-1, -1>>, <<-1, 0>>, <<-1, 1>>>>

Cell2connCoord(cellX, cellY, numNeigh) ==
    <<2 * cellX + 1 + ConnOffset[numNeigh + 1][1],
      2 * cellY + 1 + ConnOffset[numNeigh + 1][2]>>

\* a write that stores 1 whatever the caller asked for
WithConnectionOpen(cm, cellX, cellY, numNeigh, value) ==
    LET c == Cell2connCoord(cellX, cellY, numNeigh)
    IN Put(cm, c[1], c[2], 1)

\* connectionMatrix after setConnection / deleteConnection
WithConnection(cm, cellX, cellY, numNeigh, value) ==
    LET c == Cell2connCoord(cellX, cellY, numNeigh)
    IN Put(cm, c[1], c[2], value)

RECURSIVE DeleteAll(_, _, _, _)
\* connectionMatrix after deleteConnection(cellX, cellY, d) for d = numNeigh .. 7
DeleteAll(cm, cellX, cellY, numNeigh) ==
    IF numNeigh > 7 THEN cm
    ELSE DeleteAll(WithConnection(cm, cellX, cellY, numNeigh, 0), cellX, cellY, numNeigh + 1)

Edited(h) == [h EXCEPT !.edits = @ + 1, !.gridFresh = FALSE, !.costFresh = FALSE,
                       !.live = FALSE, !.tripped = FALSE]

UnchangedPlan == UNCHANGED <<mapFile, loadingOk, sizeX, sizeY, sizeCell, costMatrix,
                             currentPath, grid, wavefront, wfIdx, numberUpdates,
                             frame, depth, fpResult, connResult>>

setConnection(cell, numNeigh) ==
    /\ pc = "idle" /\ ~IsNone(connectionMatrix)
    /\ hist.edits + hist.queries < MaxCalls
    /\ connectionMatrix' = WithConnection(connectionMatrix, cell[1], cell[2], numNeigh, 1)
    /\ hist' = [Edited(hist) EXCEPT !.isolated = NoCell]
    /\ pc' = pc
    /\ UnchangedPlan

deleteConnection(cell, numNeigh) ==
    /\ pc = "idle" /\ ~IsNone(connectionMatrix)
    /\ hist.edits + hist.queries < MaxCalls
    /\ connectionMatrix' = WithConnection(connectionMatrix, cell[1], cell[2], numNeigh, 0)
    /\ hist' = Edited(hist)
    /\ pc' = pc
    /\ UnchangedPlan

\* a client calling setConnection(cell, numNeigh), then deleteConnection(cell, numNeigh)
openThenClose(cell, numNeigh) ==
    /\ pc = "idle" /\ ~IsNone(connectionMatrix)
    /\ hist.edits + hist.queries < MaxCalls
    /\ connectionMatrix' =
          WithConnection(WithConnection(connectionMatrix, cell[1], cell[2], numNeigh, 1),
                         cell[1], cell[2], numNeigh, 0)
    /\ hist' = [Edited(hist) EXCEPT
                   !.isolated = NoCell,
                   !.tripped = TRUE,
                   !.trip = <<cell[1], cell[2], numNeigh>>,
                   !.was = At(connectionMatrix,
                              Cell2connCoord(cell[1], cell[2], numNeigh)[1],
                              Cell2connCoord(cell[1], cell[2], numNeigh)[2])]
    /\ pc' = pc
    /\ UnchangedPlan

\* a client closing all 8 connections of a cell: deleteConnection(cell, d), d = 0 .. 7
closeCell(cell) ==
    /\ pc = "idle" /\ ~IsNone(connectionMatrix)
    /\ hist.edits + hist.queries < MaxCalls
    /\ connectionMatrix' = DeleteAll(connectionMatrix, cell[1], cell[2], 0)
    /\ hist' = [Edited(hist) EXCEPT !.isolated = cell]
    /\ pc' = pc
    /\ UnchangedPlan

\* what isConnected returns: the stored number, or IndexError from numpy
IsConnectedValue(cm, cellX, cellY, numNeigh) ==
    LET c == Cell2connCoord(cellX, cellY, numNeigh)
    IN IF ValidAt(cm, c[1], c[2])
       THEN [raised |-> FALSE, value |-> At(cm, c[1], c[2])]
       ELSE [raised |-> TRUE, value |-> 0]

isConnected(cell, numNeigh) ==
    /\ pc = "idle" /\ ~IsNone(connectionMatrix)
    /\ hist.edits + hist.queries < MaxCalls
    /\ connResult' = IsConnectedValue(connectionMatrix, cell[1], cell[2], numNeigh)
    /\ hist' = [hist EXCEPT !.conn = <<cell[1], cell[2], numNeigh>>, !.asked = TRUE,
                            !.queries = @ + 1]
    /\ UNCHANGED <<mapFile, pc, loadingOk, sizeX, sizeY, sizeCell, connectionMatrix,
                   costMatrix, currentPath, grid, wavefront, wfIdx, numberUpdates,
                   frame, depth, fpResult>>

-----------------------------------------------------------------------------
(* fillCostMatrix *)

\* self.neighbor, lines 48-49
neighbor ==
    <<<<1, 1, 0, -1, -1, -1, 0, 1>>,
      <<0, 1, 1, 1, 0, -1, -1, -1>>>>

InGrid(x, y) == 0 <= x /\ x < 2 * sizeX + 1 /\ 0 <= y /\ y < 2 * sizeY + 1

RECURSIVE PropagateFrom(_, _, _, _)
\* the for loop of lines 351-364 from neighbour i on: the grid and the count
PropagateFrom(g, origin, i, n) ==
    IF i > 7 THEN [grid |-> g, numberUpdates |-> n]
    ELSE LET x == origin[1] + neighbor[1][i + 1]
             y == origin[2] + neighbor[2][i + 1]
             next == At(g, origin[1], origin[2]) + 1
         IN IF InGrid(x, y)
            THEN IF At(g, x, y) = Unvisited
                 THEN PropagateFrom(Put(g, x, y, next), origin, i + 1, n + 1)
                 ELSE IF At(g, x, y) > next /\ At(g, x, y) # Blocked
                      THEN PropagateFrom(Put(g, x, y, next), origin, i + 1, n + 1)
                      ELSE PropagateFrom(g, origin, i + 1, n)
            ELSE PropagateFrom(g, origin, i + 1, n)

\* a propagation that looks at the 4 orthogonal neighbours only
PropagateOrthogonal(g, origin) ==
    LET orth == {<<origin[1] + d[1], origin[2] + d[2]>> : d \in {<<0, 1>>, <<0, -1>>, <<1, 0>>, <<-1, 0>>}}
        hit == {p \in orth : InGrid(p[1], p[2]) /\ At(g, p[1], p[2]) = Unvisited}
    IN [grid |-> [g EXCEPT !.v = [p \in DOMAIN g.v |->
                                    IF p \in hit THEN At(g, origin[1], origin[2]) + 1 ELSE g.v[p]]],
        numberUpdates |-> Cardinality(hit)]

\* a propagation that overwrites every neighbour whose cost differs from origin's + 1
PropagateDiffering(g, origin) ==
    LET next == At(g, origin[1], origin[2]) + 1
        near == {<<origin[1] + neighbor[1][i], origin[2] + neighbor[2][i]>> : i \in 1 .. 8}
        hit == {p \in near : InGrid(p[1], p[2]) /\ At(g, p[1], p[2]) # Blocked
                                /\ At(g, p[1], p[2]) # next}
    IN [grid |-> [g EXCEPT !.v = [p \in DOMAIN g.v |-> IF p \in hit THEN next ELSE g.v[p]]],
        numberUpdates |-> Cardinality(hit)]

\* a propagation that takes a Blocked neighbour for an Unvisited one
PropagateThroughWalls(g, origin) ==
    LET next == At(g, origin[1], origin[2]) + 1
        near == {<<origin[1] + neighbor[1][i], origin[2] + neighbor[2][i]>> : i \in 1 .. 8}
        hit == {p \in near : InGrid(p[1], p[2])
                                /\ (At(g, p[1], p[2]) < 0 \/ At(g, p[1], p[2]) > next)}
    IN [grid |-> [g EXCEPT !.v = [p \in DOMAIN g.v |-> IF p \in hit THEN next ELSE g.v[p]]],
        numberUpdates |-> Cardinality(hit)]

propagateWavefront(g, origin) == PropagateFrom(g, origin, 0, 0)

RECURSIVE NeighboursNext(_, _, _)
\* the inner loop of lines 371-375 for one cell from neighbour i on
NeighboursNext(cell, g, i) ==
    IF i > 7 THEN <<>>
    ELSE LET x == cell[1] + neighbor[1][i + 1]
             y == cell[2] + neighbor[2][i + 1]
         IN (IF InGrid(x, y) /\ At(g, x, y) # Blocked
                /\ At(g, x, y) = At(g, cell[1], cell[2]) + 1
             THEN <<<<x, y>>>> ELSE <<>>) \o NeighboursNext(cell, g, i + 1)

\* a next wavefront built from the first cell of the old one only
IncrementFromHead(cells_updated, g) ==
    IF cells_updated = <<>> THEN <<>> ELSE NeighboursNext(Head(cells_updated), g, 0)

RECURSIVE incrementWavefront(_, _)
incrementWavefront(cells_updated, g) ==
    IF cells_updated = <<>> THEN <<>>
    ELSE NeighboursNext(Head(cells_updated), g, 0) \o incrementWavefront(Tail(cells_updated), g)

\* lines 386-392: the grid before the first round
InitialGrid(cm, goal) ==
    Put([cm EXCEPT !.v = [p \in DOMAIN cm.v |-> IF cm.v[p] = 0 THEN Blocked ELSE Unvisited]],
        goal[1], goal[2], 0)

UnchangedFill == UNCHANGED <<mapFile, loadingOk, sizeX, sizeY, sizeCell, connectionMatrix,
                             costMatrix, currentPath, frame, depth, fpResult, connResult>>

\* lines 379-395: fillCostMatrix(goalCell) up to the while loop
fillCostMatrix(goalCell) ==
    /\ pc = "idle" /\ ~IsNone(connectionMatrix)
    /\ grid' = InitialGrid(connectionMatrix, Centre(goalCell))
    /\ wavefront' = <<Centre(goalCell)>>
    /\ wfIdx' = 1
    /\ numberUpdates' = 0
    /\ hist' = [hist EXCEPT !.gridGoal = goalCell, !.gridFresh = FALSE, !.rounds = 0]
    /\ pc' = "fill"
    /\ UnchangedFill

\* lines 398-399: one pass of the for loop, one call of propagateWavefront
fillPropagate ==
    /\ pc = "fill" /\ wfIdx <= Len(wavefront)
    /\ LET r == propagateWavefront(grid, wavefront[wfIdx])
       IN /\ grid' = r.grid
          /\ numberUpdates' = numberUpdates + r.numberUpdates
    /\ wfIdx' = wfIdx + 1
    /\ UNCHANGED <<pc, wavefront, hist>>
    /\ UnchangedFill

\* lines 401-404: the end of a round; the function returns after a round without updates
fillRoundEnd ==
    /\ pc = "fill" /\ wfIdx > Len(wavefront)
    /\ IF numberUpdates = 0
       THEN /\ pc' = "idle"
            /\ wavefront' = <<>>
            /\ wfIdx' = 0
            /\ hist' = [hist EXCEPT !.rounds = @ + 1, !.gridFresh = TRUE]
       ELSE /\ pc' = "fill"
            /\ wavefront' = incrementWavefront(wavefront, grid)
            /\ wfIdx' = 1
            /\ hist' = [hist EXCEPT !.rounds = @ + 1]
    /\ numberUpdates' = 0
    /\ grid' = grid
    /\ UnchangedFill

\* the one element of a singleton set (binds a value that is computed once)
The(S) == CHOOSE e \in S : TRUE

RECURSIVE PropagateAll(_, _, _, _)
\* lines 397-399: one round, propagateWavefront for every cell of the wavefront from index i on
PropagateAll(g, wf, i, n) ==
    IF i > Len(wf) THEN [grid |-> g, numberUpdates |-> n]
    ELSE The({PropagateAll(r.grid, wf, i + 1, n + r.numberUpdates) :
                 r \in {propagateWavefront(g, wf[i])}})

RECURSIVE RunRounds(_, _, _)
\* lines 396-403: the while loop; the grid and the number of rounds when it ends
RunRounds(g, wf, rounds) ==
    The({IF r.numberUpdates = 0
         THEN [grid |-> r.grid, rounds |-> rounds + 1]
         ELSE RunRounds(r.grid, incrementWavefront(wf, r.grid), rounds + 1) :
            r \in {PropagateAll(g, wf, 1, 0)}})

\* lines 378-404: the grid a whole call of fillCostMatrix(goalCell) builds
FilledGrid(cm, goalCell) ==
    RunRounds(InitialGrid(cm, Centre(goalCell)), <<Centre(goalCell)>>, 0)

-----------------------------------------------------------------------------
(* findPath *)

\* The cost field reaches findPath through the attribute costMatrix, which
\* fillCostMatrix leaves unset (lines 406-409): the client runs
\* fillCostMatrix(goalCell) and keeps the grid it built as costMatrix.
storeCostMatrix(goalCell) ==
    /\ pc = "idle" /\ ~IsNone(connectionMatrix)
    /\ \E r \in {FilledGrid(connectionMatrix, goalCell)} :
          /\ grid' = r.grid
          /\ costMatrix' = r.grid
          /\ hist' = [hist EXCEPT !.gridGoal = goalCell, !.gridFresh = TRUE, !.rounds = r.rounds,
                                  !.costGoal = goalCell, !.costFresh = TRUE, !.live = FALSE]
    /\ UNCHANGED <<mapFile, pc, loadingOk, sizeX, sizeY, sizeCell, connectionMatrix,
                   currentPath, wavefront, wfIdx, numberUpdates, frame, depth,
                   fpResult, connResult>>

\* the moves in the order of lines 440 and 448: 4 orthogonal, then 4 diagonal
Moves ==
    <<<<0, 1>>, <<0, -1>>, <<1, 0>>, <<-1, 0>>, <<1, -1>>, <<1, 1>>, <<-1, 1>>, <<-1, -1>>>>

\* a test that lets every move through
EligibleAlways(cm, x, y, move) == TRUE

\* line 449: a diagonal move is looked at only between two non-blocked orthogonal positions
Eligible(cm, x, y, move) ==
    (move[1] # 0 /\ move[2] # 0) =>
        (At(cm, x + move[1], y) # Blocked /\ At(cm, x, y + move[2]) # Blocked)

RECURSIVE BestStep(_, _, _, _, _, _)
\* lines 438-455 from move i on: best_step once every move has been looked at
BestStep(cm, x, y, i, best_step, low_path) ==
    IF i > Len(Moves) THEN best_step
    ELSE LET next_mov == <<Moves[i][1] + x, Moves[i][2] + y>>
         IN IF Eligible(cm, x, y, Moves[i]) /\ low_path > At(cm, next_mov[1], next_mov[2])
            THEN BestStep(cm, x, y, i + 1, next_mov, At(cm, next_mov[1], next_mov[2]))
            ELSE BestStep(cm, x, y, i + 1, best_step, low_path)

\* every index the loop of line 440 reads is one numpy accepts
OrthogonalValid(cm, x, y) ==
    \A i \in 1 .. 4 : ValidAt(cm, x + Moves[i][1], y + Moves[i][2])

\* what one call of findPath does after line 430: "True", "False", an exception, or the next call
FindPathOutcome(cm, x_ini, y_ini, x_end, y_end) ==
    IF IsNone(cm) THEN [result |-> "TypeError", next |-> NoFrame]
    ELSE IF ~ValidAt(cm, x_ini, y_ini) THEN [result |-> "IndexError", next |-> NoFrame]
    ELSE IF At(cm, x_ini, y_ini) = Blocked THEN [result |-> "False", next |-> NoFrame]
    ELSE IF x_ini = x_end /\ y_ini = y_end THEN [result |-> "True", next |-> NoFrame]
    ELSE IF ~OrthogonalValid(cm, x_ini, y_ini) THEN [result |-> "IndexError", next |-> NoFrame]
    ELSE LET best_step == BestStep(cm, x_ini, y_ini, 1, <<0, 0>>, LowPathInit)
         IN [result |-> "call",
             next |-> [x |-> best_step[1], y |-> best_step[2], xe |-> x_end, ye |-> y_end]]

UnchangedMap == UNCHANGED <<mapFile, loadingOk, sizeX, sizeY, sizeCell, connectionMatrix,
                            costMatrix, grid, wavefront, wfIdx, numberUpdates, connResult>>

\* lines 331-334: planPath(point_ini, point_end) calls findPath
planPath(point_ini, point_end) ==
    /\ pc = "idle" /\ ~IsNone(connectionMatrix)
    /\ hist.edits + hist.queries < MaxCalls
    /\ frame' = [x |-> point_ini[1], y |-> point_ini[2], xe |-> point_end[1], ye |-> point_end[2]]
    /\ depth' = 0
    /\ fpResult' = "none"
    /\ hist' = [hist EXCEPT !.queries = @ + 1, !.start = point_ini, !.end = point_end,
                            !.pathBase = Len(currentPath), !.calls = 0, !.live = TRUE]
    /\ pc' = "findPath"
    /\ currentPath' = currentPath
    /\ UnchangedMap

\* lines 420-457: one call of findPath, up to its return or its recursive call
findPath ==
    /\ pc = "findPath"
    /\ IF depth >= RecursionLimit
       THEN /\ fpResult' = "RecursionError"
            /\ pc' = "idle"
            /\ frame' = NoFrame
            /\ depth' = 0
            /\ UNCHANGED <<currentPath, hist>>
       ELSE LET x_ini == 2 * frame.x + 1
                y_ini == 2 * frame.y + 1
                x_end == 2 * frame.xe + 1
                y_end == 2 * frame.ye + 1
                out == FindPathOutcome(costMatrix, x_ini, y_ini, x_end, y_end)
            IN /\ currentPath' = currentPath \o <<x_ini, y_ini>>
               /\ hist' = [hist EXCEPT !.calls = @ + 1]
               /\ IF out.result = "call"
                  THEN /\ frame' = out.next
                       /\ depth' = depth + 1
                       /\ UNCHANGED <<pc, fpResult>>
                  ELSE /\ fpResult' = out.result
                       /\ pc' = "idle"
                       /\ frame' = NoFrame
                       /\ depth' = 0
    /\ UnchangedMap

-----------------------------------------------------------------------------
(* Maps with edits, cost computation and path queries *)

\* a 2 x 1 map whose boundary is open around cell (0,0), except the corner (0,0)
CornerFile ==
    <<<<2, 1, 400>>,
      <<1, 1, 1, 0, 0>>,
      <<1, 1, 1, 1, 0>>,
      <<0, 1, 1, 0, 0>>>>

PlanFiles == {OpenFile(2, 1), OpenFile(1, 2), CornerFile}

Init == Fresh(PlanFiles)

Next ==
    \/ Construct
    \/ \E cell \in Cells, numNeigh \in Directions : setConnection(cell, numNeigh)
    \/ \E cell \in Cells, numNeigh \in Directions : deleteConnection(cell, numNeigh)
    \/ \E cell \in Cells : closeCell(cell)
    \/ \E goalCell \in Cells : storeCostMatrix(goalCell)
    \/ \E point_ini \in Cells, point_end \in Cells : planPath(point_ini, point_end)
    \/ findPath

Spec == Init /\ [][Next]_vars

-----------------------------------------------------------------------------
(* Path queries on maps with open corners *)

\* a 2 x 1 map where the centre of cell (0,0) is closed in on its four sides
\* and the corner (0,0) is open
DiagonalFile ==
    <<<<2, 1, 400>>,
      <<0, 0, 0, 0, 0>>,
      <<0, 1, 0, 1, 0>>,
      <<1, 0, 0, 0, 0>>>>

WalkFiles == {CornerFile, DiagonalFile}

InitWalk == Fresh(WalkFiles)

\* findPath reads costMatrix alone: the edits come before the field is stored
BeforeStore == hist.costGoal = NoCell

NextWalk ==
    \/ Construct
    \/ \E cell \in Cells, numNeigh \in Directions : BeforeStore /\ setConnection(cell, numNeigh)
    \/ \E cell \in Cells, numNeigh \in Directions : BeforeStore /\ deleteConnection(cell, numNeigh)
    \/ \E cell \in Cells : BeforeStore /\ closeCell(cell)
    \/ \E goalCell \in Cells : storeCostMatrix(goalCell)
    \/ \E point_ini \in Cells, point_end \in Cells : planPath(point_ini, point_end)
    \/ findPath

SpecWalk == InitWalk /\ [][NextWalk]_vars

-----------------------------------------------------------------------------
(* Maps with edits and connection queries *)

NextConn ==
    \/ Construct
    \/ \E cell \in Cells, numNeigh \in Directions : setConnection(cell, numNeigh)
    \/ \E cell \in Cells, numNeigh \in Directions : deleteConnection(cell, numNeigh)
    \/ \E cell \in AnyCells, numNeigh \in Directions : isConnected(cell, numNeigh)

SpecConn == Init /\ [][NextConn]_vars

-----------------------------------------------------------------------------
(* Maps with edits, among them a connection opened and closed again *)

NextTrip ==
    \/ Construct
    \/ \E cell \in Cells, numNeigh \in Directions : setConnection(cell, numNeigh)
    \/ \E cell \in Cells, numNeigh \in Directions : deleteConnection(cell, numNeigh)
    \/ \E cell \in Cells, numNeigh \in Directions : openThenClose(cell, numNeigh)

SpecTrip == Init /\ [][NextTrip]_vars

-----------------------------------------------------------------------------
(* Maps with edits and the rounds of the cost computation *)

\* fillCostMatrix reads connectionMatrix afresh at every call and keeps nothing
\* from one call to the next: the edits come before the first call
BeforeFill == hist.gridGoal = NoCell

NextFill ==
    \/ Construct
    \/ \E cell \in Cells, numNeigh \in Directions : BeforeFill /\ setConnection(cell, numNeigh)
    \/ \E cell \in Cells, numNeigh \in Directions : BeforeFill /\ deleteConnection(cell, numNeigh)
    \/ \E cell \in Cells : BeforeFill /\ closeCell(cell)
    \/ \E goalCell \in Cells : fillCostMatrix(goalCell)
    \/ fillPropagate
    \/ fillRoundEnd

FillFiles == PlanFiles \cup {OpenFile(2, 2)}

InitFill == Fresh(FillFiles)

SpecFill == InitFill /\ [][NextFill]_vars

-----------------------------------------------------------------------------
(* The N x N all-open maps: construction and cost computation *)

OpenFiles == {OpenFile(n, n) : n \in 1 .. MaxN}

InitOpen == Fresh(OpenFiles)

NextOpen ==
    \/ Construct
    \/ \E goalCell \in Cells : fillCostMatrix(goalCell)
    \/ fillPropagate
    \/ fillRoundEnd

SpecOpen == InitOpen /\ [][NextOpen]_vars

-----------------------------------------------------------------------------
(* Properties of the cost computation *)

Abs(a) == IF a < 0 THEN -a ELSE a
Max(a, b) == IF a >= b THEN a ELSE b

\* the cost grid's value at the centre of a cell
CostAt(g, cell) == At(g, Centre(cell)[1], Centre(cell)[2])

\* fillCostMatrix has returned and the map has not been edited since
FillDone == pc = "idle" /\ hist.gridFresh

\* an N x N map with every interior position open and the boundary ring closed
IsOpenSquare ==
    /\ ~IsNone(connectionMatrix)
    /\ sizeX = sizeY
    /\ \A p \in DOMAIN connectionMatrix.v :
          connectionMatrix.v[p] =
              IF p[1] = 0 \/ p[1] = 2 * sizeX \/ p[2] = 0 \/ p[2] = 2 * sizeY THEN 0 ELSE 1

\* C1: on an N x N all-open map, once fillCostMatrix(g) has returned, the cost
\* at the centre of every cell c is 2 * max(|c.x - g.x|, |c.y - g.y|).
C1_OpenMapChebyshev ==
    (FillDone /\ IsOpenSquare) =>
        \A c \in Cells :
            CostAt(grid, c) = 2 * Max(Abs(c[1] - hist.gridGoal[1]), Abs(c[2] - hist.gridGoal[2]))

\* the documented 3 x 3 map with goal (1,1): cost 2 at (0,0) and (2,2), 0 at (1,1)
C1_Witness ==
    /\ FillDone /\ IsOpenSquare /\ sizeX = 3
    /\ hist.gridGoal = <<1, 1>>
    /\ CostAt(grid, <<0, 0>>) = 2
    /\ CostAt(grid, <<2, 2>>) = 2
    /\ CostAt(grid, <<1, 1>>) = 0

\* the positions fillCostMatrix starts as Unvisited: open and not the goal
OpenCount ==
    Cardinality({p \in DOMAIN connectionMatrix.v :
                    connectionMatrix.v[p] # 0 /\ p # Centre(hist.gridGoal)})

\* the positions of the grid still Unvisited
Remaining == Cardinality({p \in DOMAIN grid.v : grid.v[p] = Unvisited})

\* C5: fillCostMatrix terminates on every connectivity grid and goal: every
\* round that does not end the loop has given a cost to at least one more
\* Unvisited position, so the rounds run so far never outnumber the positions
\* settled, and the round that finds nothing to update ends the call.
C5_FillTerminates ==
    /\ pc = "fill" => hist.rounds <= OpenCount - Remaining
    /\ FillDone => hist.rounds <= OpenCount - Remaining + 1

\* a call that returned after several rounds on a map that was edited
C5_Witness ==
    /\ FillDone /\ hist.edits >= 1 /\ hist.rounds >= 4
    /\ Remaining >= 1

Finite(value) == value >= 0

Adjacent(p, q) == p # q /\ Abs(p[1] - q[1]) <= 1 /\ Abs(p[2] - q[2]) <= 1

\* the position of the goal fillCostMatrix was last called with
GoalPosition == Centre(hist.gridGoal)

\* the grid begins a call with Blocked at every closed position but the goal, 0 at the goal
StartsBlocked ==
    pc' = "fill" =>
        /\ grid'.v[GoalPosition'] = 0
        /\ \A p \in DOMAIN grid'.v :
              (connectionMatrix.v[p] = 0 /\ p # GoalPosition') => grid'.v[p] = Blocked

\* a step of the call keeps Blocked and 0 at the goal, and only lowers a cost
KeepsBlockedAndLowers ==
    (pc = "fill" /\ pc' \in {"fill", "idle"}) =>
        /\ grid'.v[GoalPosition] = 0
        /\ \A p \in DOMAIN grid.v :
              /\ grid.v[p] = Blocked => grid'.v[p] = Blocked
              /\ (Finite(grid.v[p]) /\ grid'.v[p] # grid.v[p]) =>
                    (Finite(grid'.v[p]) /\ grid'.v[p] < grid.v[p])

\* C12: in every step of fillCostMatrix (initialisation, every call of
\* propagateWavefront, every end of round) a position marked Blocked at
\* initialisation stays Blocked, a position with a finite cost is only ever
\* given a strictly smaller finite cost, and the goal keeps cost 0.
C12_PropagationMonotonic == [][StartsBlocked /\ KeepsBlockedAndLowers]_vars

\* on an edited map, propagateWavefront has run from a position that touches
\* both the goal and a closed position inside the boundary ring
C12_Witness ==
    /\ pc = "fill" /\ hist.edits >= 1 /\ hist.rounds >= 1 /\ wfIdx > 1
    /\ \E i \in 1 .. wfIdx - 1 :
          /\ Adjacent(wavefront[i], GoalPosition)
          /\ \E p \in DOMAIN grid.v :
                /\ Adjacent(wavefront[i], p)
                /\ grid.v[p] = Blocked
                /\ p[1] \in 1 .. 2 * sizeX - 1 /\ p[2] \in 1 .. 2 * sizeY - 1
    /\ grid.v[GoalPosition] = 0

\* the positions propagation may give a cost: the open ones and the goal
OpenPositions(cm, goal) == {p \in DOMAIN cm.v : cm.v[p] # 0} \cup {goal}

RECURSIVE HopLevels(_, _, _, _)
\* breadth-first search under 8-neighbour moves: the pairs <<position, hops>>
\* for the positions of frontier (at k hops) and all those beyond
HopLevels(open, seen, frontier, k) ==
    IF frontier = {} THEN {}
    ELSE LET next == {q \in open \ seen : \E p \in frontier : Adjacent(p, q)}
         IN {<<p, k>> : p \in frontier} \cup HopLevels(open, seen \cup next, next, k + 1)

\* the shortest hop distance to goal of every open position, Unvisited where there is none
HopDistance(cm, goal) ==
    LET open == OpenPositions(cm, goal)
        levels == HopLevels(open, {goal}, {goal}, 0)
    IN [p \in open |-> IF \E l \in levels : l[1] = p
                       THEN (CHOOSE l \in levels : l[1] = p)[2]
                       ELSE Unvisited]

\* C13: when fillCostMatrix has returned, every open position holds its
\* shortest hop distance to the goal (8-neighbour moves through open
\* positions), or Unvisited if the goal cannot be reached from it; and the
\* wavefront of each round holds every position at that many hops, none skipped.
C13_ShortestHops ==
    \A dist \in {IF pc = "fill" \/ FillDone
                  THEN HopDistance(connectionMatrix, GoalPosition) ELSE <<>>} :
        /\ FillDone => \A p \in DOMAIN dist : grid.v[p] = dist[p]
        /\ pc = "fill" =>
              {wavefront[i] : i \in 1 .. Len(wavefront)}
                  = {p \in DOMAIN dist : dist[p] = hist.rounds}

\* a call that returned on an edited map with a position 2 hops from the goal
\* and an open position the goal cannot be reached from
C13_Witness ==
    /\ FillDone /\ hist.edits >= 1 /\ hist.rounds >= 3
    /\ \E p \in DOMAIN grid.v : grid.v[p] = 2
    /\ \E p \in DOMAIN grid.v : connectionMatrix.v[p] # 0 /\ grid.v[p] = Unvisited

-----------------------------------------------------------------------------
(* Properties of the path walk *)

GridPositions == (2 * sizeX + 1) * (2 * sizeY + 1)

\* the positions the last path query has written to currentPath
QueryEntries ==
    [i \in 1 .. (Len(currentPath) - hist.pathBase) \div 2 |->
        <<currentPath[hist.pathBase + 2 * i - 1], currentPath[hist.pathBase + 2 * i]>>]

\* the last path query has returned, and map and costMatrix are as it found them
QueryDone == pc = "idle" /\ hist.live

\* costMatrix is the field of the map as it is, computed with the query's end as goal
FieldForEnd == ~IsNone(costMatrix) /\ hist.costFresh /\ hist.costGoal = hist.end

\* C2: on the field computed with end as goal, from a start that reaches end,
\* findPath succeeds with a path from start to end of as many hops as the
\* field's value at start.
C2_PathFoundAndShortest ==
    (QueryDone /\ FieldForEnd /\ Finite(CostAt(costMatrix, hist.start))) =>
        /\ fpResult = "True"
        /\ QueryEntries[1] = Centre(hist.start)
        /\ QueryEntries[Len(QueryEntries)] = Centre(hist.end)
        /\ Len(QueryEntries) - 1 = CostAt(costMatrix, hist.start)

\* a position of the path lies in the grid and has a cost
OpenEntry(p) ==
    /\ InGrid(p[1], p[2])
    /\ Finite(At(costMatrix, p[1], p[2]))

\* C3: in the path a query writes, used as intended (the field computed with
\* end as goal, start reaching end), consecutive entries are adjacent, joined
\* through non-blocked positions, the cost never increases, and no entry is
\* Blocked or Unvisited.
C3_PathStepsOpenAndDescending ==
    (QueryDone /\ FieldForEnd /\ Finite(CostAt(costMatrix, hist.start))) =>
        /\ \A i \in 1 .. Len(QueryEntries) : OpenEntry(QueryEntries[i])
        /\ \A i \in 1 .. Len(QueryEntries) - 1 :
              /\ Adjacent(QueryEntries[i], QueryEntries[i + 1])
              /\ At(costMatrix, QueryEntries[i + 1][1], QueryEntries[i + 1][2])
                    <= At(costMatrix, QueryEntries[i][1], QueryEntries[i][2])

\* C4: a path query makes no more findPath calls than the grid has positions.
C4_WalkBounded == hist.calls <= GridPositions

\* C6: when the field's value at start is Blocked or Unvisited, the first
\* findPath call returns False and no further call is made.
C6_UnreachableStartFails ==
    (hist.live /\ hist.calls >= 1 /\ ~IsNone(costMatrix)
        /\ CostAt(costMatrix, hist.start) \in {Blocked, Unvisited}) =>
        (pc = "idle" /\ fpResult = "False" /\ hist.calls = 1)

\* the field was computed after all 8 connections of a cell other than the goal were closed
FieldOfClosedCell ==
    /\ hist.isolated # NoCell
    /\ ~IsNone(costMatrix) /\ hist.costFresh
    /\ hist.costGoal # hist.isolated

\* C7: after deleteConnection(c, d) for all 8 directions and fillCostMatrix(goal),
\* goal # c, the field's value at the centre of c is Blocked, and findPath from
\* c returns False.
C7_ClosedCellBlocked ==
    /\ FieldOfClosedCell => CostAt(costMatrix, hist.isolated) = Blocked
    /\ (FieldOfClosedCell /\ QueryDone /\ hist.start = hist.isolated) => fpResult = "False"

\* the position the pending findPath call stands on, and the end it compares with
Standing == <<2 * frame.x + 1, 2 * frame.y + 1>>
StandingEnd == <<2 * frame.xe + 1, 2 * frame.ye + 1>>

\* the pending call stands on a position with a cost, not the end, none of whose
\* eligible neighbours has a lower cost
LocalMinimum ==
    /\ pc = "findPath" /\ depth < RecursionLimit
    /\ ~IsNone(costMatrix)
    /\ InGrid(Standing[1], Standing[2])
    /\ OrthogonalValid(costMatrix, Standing[1], Standing[2])
    /\ Finite(At(costMatrix, Standing[1], Standing[2]))
    /\ Standing # StandingEnd
    /\ \A i \in 1 .. Len(Moves) :
          LET n == <<Standing[1] + Moves[i][1], Standing[2] + Moves[i][2]>>
          IN ~ /\ Eligible(costMatrix, Standing[1], Standing[2], Moves[i])
               /\ Finite(At(costMatrix, n[1], n[2]))
               /\ At(costMatrix, n[1], n[2]) < At(costMatrix, Standing[1], Standing[2])

\* C8: a findPath call standing on a local minimum that is not the end stops
\* with an inconsistent-field error instead of stepping on.
C8_LocalMinimumIsError ==
    [][LocalMinimum => (pc' = "idle" /\ fpResult' = "InconsistentFieldError")]_vars

\* the position the last findPath call stood on, and the move it chose from there
LastStanding == <<currentPath[Len(currentPath) - 1], currentPath[Len(currentPath)]>>
StepChosen == <<frame.x - LastStanding[1], frame.y - LastStanding[2]>>

\* the last findPath call chose a diagonal move and called itself
DiagonalChosen ==
    /\ pc = "findPath" /\ hist.calls >= 1
    /\ Abs(StepChosen[1]) = 1 /\ Abs(StepChosen[2]) = 1

\* C14: findPath never chooses the diagonal move from (x, y) to (x+dx, y+dy)
\* when (x+dx, y) or (x, y+dy) is Blocked.
C14_NoCornerCutting ==
    DiagonalChosen =>
        /\ At(costMatrix, LastStanding[1] + StepChosen[1], LastStanding[2]) # Blocked
        /\ At(costMatrix, LastStanding[1], LastStanding[2] + StepChosen[2]) # Blocked

\* a diagonal move chosen from a position with a cost, between two positions with a cost
C14_Witness ==
    /\ DiagonalChosen
    /\ Finite(At(costMatrix, LastStanding[1], LastStanding[2]))
    /\ Finite(At(costMatrix, LastStanding[1] + StepChosen[1], LastStanding[2]))
    /\ Finite(At(costMatrix, LastStanding[1], LastStanding[2] + StepChosen[2]))

\* C15: once a path query has returned, currentPath begins at that query's
\* start and holds the positions that query visited and no others: nothing
\* an earlier query wrote is left in it.
C15_PathOfLastQuery ==
    (pc = "idle" /\ hist.start # NoCell /\ hist.calls >= 1) =>
        /\ Len(currentPath) = 2 * hist.calls
        /\ <<currentPath[1], currentPath[2]>> = Centre(hist.start)

-----------------------------------------------------------------------------
(* Properties of the connection queries and of the loader *)

\* C9: isConnected fails with a bounds error for every cell outside the map.
C9_OutOfRangeRaises ==
    (hist.asked /\ <<hist.conn[1], hist.conn[2]>> \notin Cells) => connResult.raised

\* the data lines of a file: the lines after the header that are not blank
DataLines(file) == SelectSeq(Tail(file), LAMBDA line : line # <<>>)

\* header of 3 numbers, 2*sizeY+1 data lines of 2*sizeX+1 numbers each
WellFormed(file) ==
    /\ file # <<>>
    /\ Len(Head(file)) = 3
    /\ Len(DataLines(file)) = 2 * Head(file)[2] + 1
    /\ \A k \in 1 .. Len(DataLines(file)) : Len(DataLines(file)[k]) = 2 * Head(file)[1] + 1

\* the grid a well-formed file describes: its last data line is row 0
GridOf(file) ==
    [w |-> 2 * Head(file)[1] + 1,
     h |-> 2 * Head(file)[2] + 1,
     v |-> [p \in Positions(2 * Head(file)[1] + 1, 2 * Head(file)[2] + 1) |->
               DataLines(file)[2 * Head(file)[2] + 1 - p[2]][p[1] + 1]]]

\* C10: a map reported as loaded comes from a well-formed file and holds exactly
\* the values of its data lines, blank lines notwithstanding.
C10_LoadAllOrNothing ==
    (pc # "new" /\ loadingOk) =>
        (WellFormed(mapFile) /\ connectionMatrix = GridOf(mapFile))

-----------------------------------------------------------------------------
(* Properties of a connection opened and closed again *)

\* what isConnected returns now for the connection opened and closed last
TripNow == IsConnectedValue(connectionMatrix, hist.trip[1], hist.trip[2], hist.trip[3])

\* C11 as stated: setConnection(c, d) followed immediately by
\* deleteConnection(c, d) leaves isConnected(c, d) at the value it had before
\* the two calls, whether the connection was open or closed.
C11_RoundTripRestores ==
    hist.tripped => (~TripNow.raised /\ TripNow.value = hist.was)

\* C11 amended: setConnection(c, d) followed immediately by
\* deleteConnection(c, d) leaves isConnected(c, d) at 0 (closed), which is the
\* value it had before exactly when the connection was closed before.
C11_RoundTripCloses ==
    hist.tripped =>
        /\ ~TripNow.raised /\ TripNow.value = 0
        /\ (TripNow.value = hist.was) <=> (hist.was = 0)

\* a connection that was open, opened and closed again after another edit
C11_Witness ==
    /\ hist.tripped /\ hist.was = 1 /\ hist.edits = 2
    /\ TripNow.value = 0

====
